---- MODULE Spec2Model ----
(***************************************************************************)
(* Model of src/main.py: a grid maze (Maze), an agent (Player) and the     *)
(* right-hand wall-follower loop of MazeManager.process_players_trial.     *)
(* Grid lookups follow Python's list indexing: an index i of a list of     *)
(* length n is valid iff -n <= i < n, a negative index counts from the     *)
(* end, and any other index raises IndexError.                             *)
(***************************************************************************)
EXTENDS Integers, Sequences, FiniteSets, TLC

(* ---- bounds of the generated mazes ---- *)
MaxRows == 2
MaxCells == 4

(* ---- bound of the generated input texts (characters) ---- *)
MaxText == 5

(* ---- EFloor (main.py 8-12) ---- *)
EFloor == {"Normal", "Wall", "Start", "Goal"}

(* ---- EOrientation (main.py 91-95) and its unit vectors ---- *)
EOrientation == {"North", "West", "South", "East"}

Vector2D(dx, dy) == [x |-> dx, y |-> dy]

Point2D(px, py) == [x |-> px, y |-> py]

value(o) ==
    CASE o = "North" -> Vector2D(-1, 0)
      [] o = "West"  -> Vector2D(0, -1)
      [] o = "South" -> Vector2D(1, 0)
      [] o = "East"  -> Vector2D(0, 1)

turn_to_the_right(o) ==
    CASE o = "North" -> "East"
      [] o = "West"  -> "North"
      [] o = "South" -> "West"
      [] o = "East"  -> "South"

turn_to_the_left(o) ==
    CASE o = "North" -> "West"
      [] o = "West"  -> "South"
      [] o = "South" -> "East"
      [] o = "East"  -> "North"

(* mutant: the reverse of East mistaken *)
turn_around_EastWrong(o) ==
    CASE o = "North" -> "South"
      [] o = "West"  -> "East"
      [] o = "South" -> "North"
      [] o = "East"  -> "East"

turn_around(o) ==
    CASE o = "North" -> "South"
      [] o = "West"  -> "East"
      [] o = "South" -> "North"
      [] o = "East"  -> "West"

(* Point2D.__add__ *)
Add(p, v) == Point2D(p.x + v.x, p.y + v.y)

(* ---- Python list indexing ---- *)
ValidIndex(n, i) == (-n <= i) /\ (i < n)

ListIndex(n, i) == IF i < 0 THEN n + i + 1 ELSE i + 1

(* mutant: the grid indexed [pos.y][pos.x] *)
FloorAt_Transposed(f, pos) ==
    IF ~ValidIndex(Len(f), pos.y) THEN "IndexError"
    ELSE LET row == f[ListIndex(Len(f), pos.y)]
         IN  IF ~ValidIndex(Len(row), pos.x) THEN "IndexError"
             ELSE row[ListIndex(Len(row), pos.x)]

(* maze.floor[pos.x][pos.y]: a cell kind, or "IndexError" *)
FloorAt(f, pos) ==
    IF ~ValidIndex(Len(f), pos.x) THEN "IndexError"
    ELSE LET row == f[ListIndex(Len(f), pos.x)]
         IN  IF ~ValidIndex(Len(row), pos.y) THEN "IndexError"
             ELSE row[ListIndex(Len(row), pos.y)]

(* ---- Maze._find_xy ---- *)
RowHas(row, kind) == \E j \in 1..Len(row) : row[j] = kind

FirstIndex(row, kind) ==
    CHOOSE j \in 1..Len(row) :
        row[j] = kind /\ \A k \in 1..(j - 1) : row[k] # kind

(* mutant: the last row holding the kind instead of the first *)
find_xy_LastRow(kind, f) ==
    LET x == CHOOSE i \in 1..Len(f) :
                 RowHas(f[i], kind)
                     /\ \A k \in (i + 1)..Len(f) : ~RowHas(f[k], kind)
    IN  Point2D(x - 1, FirstIndex(f[x], kind) - 1)

(* mutant: the coordinates returned in the order (column, row) *)
find_xy_Swapped(kind, f) ==
    LET x == CHOOSE i \in 1..Len(f) :
                 RowHas(f[i], kind) /\ \A k \in 1..(i - 1) : ~RowHas(f[k], kind)
    IN  Point2D(FirstIndex(f[x], kind) - 1, x - 1)

find_xy(kind, f) ==
    LET x == CHOOSE i \in 1..Len(f) :
                 RowHas(f[i], kind) /\ \A k \in 1..(i - 1) : ~RowHas(f[k], kind)
    IN  Point2D(x - 1, FirstIndex(f[x], kind) - 1)

(* ---- the example mazes of __main__ (main.py 243-268) ---- *)
maze1 ==
    << <<"Wall","Wall","Wall","Wall","Wall","Wall","Wall">>,
       <<"Wall","Start","Normal","Normal","Normal","Normal","Wall">>,
       <<"Wall","Normal","Goal","Wall","Wall","Wall","Wall">>,
       <<"Wall","Normal","Normal","Normal","Normal","Normal","Wall">>,
       <<"Wall","Wall","Wall","Wall","Wall","Wall","Wall">> >>

maze2 ==
    << <<"Wall","Wall","Wall","Wall","Wall","Wall","Wall">>,
       <<"Wall","Normal","Normal","Normal","Normal","Normal","Wall">>,
       <<"Wall","Normal","Wall","Wall","Wall","Normal","Wall">>,
       <<"Wall","Start","Wall","Goal","Wall","Normal","Wall">>,
       <<"Wall","Normal","Wall","Wall","Wall","Normal","Wall">>,
       <<"Wall","Normal","Normal","Normal","Normal","Normal","Wall">>,
       <<"Wall","Wall","Wall","Wall","Wall","Wall","Wall">> >>

maze3 ==
    << <<"Wall","Wall","Wall","Wall","Wall">>,
       <<"Wall","Wall","Normal","Wall","Wall">>,
       <<"Wall","Normal","Normal","Normal","Wall">>,
       <<"Wall","Wall","Start","Wall","Wall">>,
       <<"Wall","Wall","Goal","Wall","Wall">>,
       <<"Wall","Wall","Wall","Wall","Wall">> >>

(* ---- generated mazes: every grid of at most MaxRows rows (rows may be   *)
(* empty or ragged) and at most MaxCells cells, and every such rectangular *)
(* grid enclosed in a border of Wall cells ---- *)
RECURSIVE SumTo(_, _)
SumTo(s, n) == IF n = 0 THEN 0 ELSE s[n] + SumTo(s, n - 1)

Shapes ==
    { s \in UNION { [1..k -> 0..MaxCells] : k \in 1..MaxRows } :
        SumTo(s, Len(s)) <= MaxCells }

Grid(shape, cells) ==
    [i \in 1..Len(shape) |->
        [j \in 1..shape[i] |-> cells[SumTo(shape, i - 1) + j]]]

Has(f, kind) == \E i \in 1..Len(f) : RowHas(f[i], kind)

MaxCols(f) ==
    CHOOSE c \in { Len(f[i]) : i \in 1..Len(f) } :
        \A i \in 1..Len(f) : Len(f[i]) <= c

Rectangular(f) == \A i \in 1..Len(f) : Len(f[i]) = Len(f[1])

AddBorder(f) ==
    [i \in 1..(Len(f) + 2) |->
        [j \in 1..(Len(f[1]) + 2) |->
            IF i = 1 \/ i = Len(f) + 2 \/ j = 1 \/ j = Len(f[1]) + 2
            THEN "Wall" ELSE f[i - 1][j - 1]]]

(* the grids Maze.parse accepts (Maze._validate): a Start and a Goal *)
Accepted(f) == Has(f, "Start") /\ Has(f, "Goal")

ExampleMazes == {maze1, maze2, maze3}

(* ---- the text format: EFloor.to_char, EFloor.of, str.splitlines,       *)
(* Maze.to_string, Maze._validate, Maze.parse. A text is a sequence of    *)
(* one-character strings. ---- *)
Glyphs == {" ", "*", "o", "x"}

LineEnds == {"\n", "\r"}

(* "#" stands for the characters that are neither glyphs nor line ends *)
Chars == Glyphs \cup LineEnds \cup {"#"}

to_char(kind) ==
    CASE kind = "Normal" -> " "
      [] kind = "Wall"   -> "*"
      [] kind = "Start"  -> "o"
      [] kind = "Goal"   -> "x"

(* mutant: an unknown character read as an open cell *)
of_Lenient(c) ==
    CASE c = " " -> "Normal"
      [] c = "*" -> "Wall"
      [] c = "o" -> "Start"
      [] c = "x" -> "Goal"
      [] OTHER   -> "Normal"

of(c) ==
    CASE c = " " -> "Normal"
      [] c = "*" -> "Wall"
      [] c = "o" -> "Start"
      [] c = "x" -> "Goal"
      [] OTHER   -> "ValueError"

(* os.linesep *)
linesep == <<"\n">>

(* str.splitlines: "\n", "\r" and "\r\n" end a line; a line end at the    *)
(* end of the text opens no further line *)
RECURSIVE SplitFrom(_, _, _, _)
SplitFrom(t, i, cur, acc) ==
    IF i > Len(t) THEN (IF cur = <<>> THEN acc ELSE Append(acc, cur))
    ELSE IF t[i] = "\n" THEN SplitFrom(t, i + 1, <<>>, Append(acc, cur))
    ELSE IF t[i] = "\r"
         THEN IF i < Len(t) /\ t[i + 1] = "\n"
              THEN SplitFrom(t, i + 2, <<>>, Append(acc, cur))
              ELSE SplitFrom(t, i + 1, <<>>, Append(acc, cur))
    ELSE SplitFrom(t, i + 1, Append(cur, t[i]), acc)

splitlines(t) == SplitFrom(t, 1, <<>>, <<>>)

(* os.linesep.join(lines) *)
RECURSIVE JoinLines(_, _)
JoinLines(lines, n) ==
    IF n = 0 THEN <<>>
    ELSE IF n = 1 THEN lines[1]
    ELSE JoinLines(lines, n - 1) \o linesep \o lines[n]

to_string(f) ==
    JoinLines([i \in 1..Len(f) |-> [j \in 1..Len(f[i]) |-> to_char(f[i][j])]],
              Len(f))

Contains(t, c) == \E i \in 1..Len(t) : t[i] = c

(* mutant: the exit position looked for first *)
validate_GoalFirst(t) ==
    IF ~Contains(t, to_char("Goal")) THEN "NoGoal"
    ELSE IF ~Contains(t, to_char("Start")) THEN "NoStart"
    ELSE "ok"

(* Maze._validate: "ok", or the marker whose absence ends the program *)
validate(t) ==
    IF ~Contains(t, to_char("Start")) THEN "NoStart"
    ELSE IF ~Contains(t, to_char("Goal")) THEN "NoGoal"
    ELSE "ok"

floors(t) ==
    LET lines == splitlines(t)
    IN  [i \in 1..Len(lines) |-> [j \in 1..Len(lines[i]) |-> of(lines[i][j])]]

(* Maze.parse: the outcome and, for a Maze, its fields *)
parse(t) ==
    IF validate(t) # "ok" THEN [outcome |-> validate(t)]
    ELSE LET f == floors(t)
         IN  IF Has(f, "ValueError") THEN [outcome |-> "ValueError"]
             ELSE [outcome |-> "Maze", floor |-> f,
                   start |-> find_xy("Start", f),
                   goal |-> find_xy("Goal", f)]

(* a text of the grid f: every row followed by a line end *)
RECURSIVE TextOf(_, _)
TextOf(f, n) ==
    IF n = 0 THEN <<>>
    ELSE TextOf(f, n - 1) \o [j \in 1..Len(f[n]) |-> to_char(f[n][j])]
             \o <<"\n">>

(* ---- state ---- *)
VARIABLES
    text,                      \* the text given to Maze.parse
    floor, start, goal,        \* Maze
    position, orientation,     \* Player
    placed,                    \* the Pose given to Player(...) at construction
    history,                   \* the local set of process_players_trial
    events,                    \* what the run has printed so far
    pc                         \* "init", "loop", "solved", "unsolvable", "fault"

vars ==
    <<text, floor, start, goal, position, orientation, placed, history, events,
      pc>>

(* Maze.parse builds the maze from the grid; MazeManager(maze, Player(p, o)) *)
(* places the agent. The agent is placed at maze.start (as __main__ does)    *)
(* or at maze.goal.                                                          *)
InitWith(f) ==
    /\ text = TextOf(f, Len(f))
    /\ floor = f
    /\ start = find_xy("Start", f)
    /\ goal = find_xy("Goal", f)
    /\ position \in {start, goal}
    /\ orientation \in EOrientation
    /\ placed = [position |-> position, orientation |-> orientation]
    /\ history = {}
    /\ events = <<>>
    /\ pc = "init"

Init ==
    \/ \E s \in Shapes : \E c \in [1..SumTo(s, Len(s)) -> EFloor] :
          LET g == Grid(s, c)
          IN  /\ Accepted(g)
              /\ \/ InitWith(g)
                 \/ Rectangular(g) /\ InitWith(AddBorder(g))
    \/ \E m \in ExampleMazes : InitWith(m)

(* ---- Player ---- *)
(* mutant: the pose forgets the orientation *)
to_Pose_PositionOnly == [position |-> position, orientation |-> "North"]

to_Pose == [position |-> position, orientation |-> orientation]

is_located_at(pos) == position = pos

(* ---- MazeManager ---- *)
is_player_located_at_goal == is_located_at(goal)

(* mutant: the Wall test inverted *)
player_can_go_Inverted(pos) ==
    LET c == FloorAt(floor, pos)
    IN  IF c = "IndexError" THEN "IndexError"
        ELSE IF c = "Wall" THEN "True" ELSE "False"

player_can_go(pos) ==
    LET c == FloorAt(floor, pos)
    IN  IF c = "IndexError" THEN "IndexError"
        ELSE IF c # "Wall" THEN "True" ELSE "False"

player_can_go_right ==
    player_can_go(Add(position, value(turn_to_the_right(orientation))))

player_can_go_forward == player_can_go(Add(position, value(orientation)))

player_can_go_left ==
    player_can_go(Add(position, value(turn_to_the_left(orientation))))

player_can_go_backward ==
    player_can_go(Add(position, value(turn_around(orientation))))

(* the events printed *)
CurrentEvent(p) == [kind |-> "Current", position |-> p]

(* mutant: the event printed after the step *)
StepEvent_AfterStep(p, o) ==
    [kind |-> "At", position |-> Add(p, value(o)), orientation |-> o]

StepEvent(p, o) == [kind |-> "At", position |-> p, orientation |-> o]

ExitEvent(p) == [kind |-> "Exit", position |-> p]

NoSolutionEvent == [kind |-> "NoSolution"]

(* mutants of the while condition: no cycle check; no goal check *)
LoopCond_NoHistory == ~is_player_located_at_goal

LoopCond_NoGoal == to_Pose \notin history

(* the while condition, lines 166-167 *)
LoopCond == ~is_player_located_at_goal /\ to_Pose \notin history

(* mutants: the pose recorded after the turn; no pose recorded *)
TurnAndStep_RecordAfterTurn(o) ==
    /\ history' = history \cup {[position |-> position, orientation |-> o]}
    /\ orientation' = o
    /\ events' = Append(events, StepEvent(position, o))
    /\ position' = Add(position, value(o))
    /\ UNCHANGED <<text, floor, start, goal, placed, pc>>

TurnAndStep_NoRecord(o) ==
    /\ history' = history
    /\ orientation' = o
    /\ events' = Append(events, StepEvent(position, o))
    /\ position' = Add(position, value(o))
    /\ UNCHANGED <<text, floor, start, goal, placed, pc>>

(* player_turn_*(); player_step_forward(): print, then step *)
TurnAndStep(o) ==
    /\ history' = history \cup {to_Pose}
    /\ orientation' = o
    /\ events' = Append(events, StepEvent(position, o))
    /\ position' = Add(position, value(o))
    /\ UNCHANGED <<text, floor, start, goal, placed, pc>>

Begin ==
    /\ pc = "init"
    /\ events' = Append(events, CurrentEvent(position))
    /\ history' = {}
    /\ pc' = "loop"
    /\ UNCHANGED <<text, floor, start, goal, position, orientation, placed>>

GoRight ==
    /\ pc = "loop" /\ LoopCond
    /\ player_can_go_right = "True"
    /\ TurnAndStep(turn_to_the_right(orientation))

(* mutant: straight ahead is tried without the right-hand test *)
GoForward_NoRightTest ==
    /\ pc = "loop" /\ LoopCond
    /\ player_can_go_forward = "True"
    /\ TurnAndStep(orientation)

GoForward ==
    /\ pc = "loop" /\ LoopCond
    /\ player_can_go_right = "False"
    /\ player_can_go_forward = "True"
    /\ TurnAndStep(orientation)

(* mutant: the left turn is tried without the straight-ahead test *)
GoLeft_NoForwardTest ==
    /\ pc = "loop" /\ LoopCond
    /\ player_can_go_right = "False"
    /\ player_can_go_left = "True"
    /\ TurnAndStep(turn_to_the_left(orientation))

GoLeft ==
    /\ pc = "loop" /\ LoopCond
    /\ player_can_go_right = "False"
    /\ player_can_go_forward = "False"
    /\ player_can_go_left = "True"
    /\ TurnAndStep(turn_to_the_left(orientation))

GoBackward ==
    /\ pc = "loop" /\ LoopCond
    /\ player_can_go_right = "False"
    /\ player_can_go_forward = "False"
    /\ player_can_go_left = "False"
    /\ TurnAndStep(turn_around(orientation))

(* a grid lookup of the decision chain raises IndexError, which leaves *)
(* process_players_trial                                              *)
RaiseIndexError ==
    /\ pc = "loop" /\ LoopCond
    /\ \/ player_can_go_right = "IndexError"
       \/ /\ player_can_go_right = "False"
          /\ player_can_go_forward = "IndexError"
       \/ /\ player_can_go_right = "False"
          /\ player_can_go_forward = "False"
          /\ player_can_go_left = "IndexError"
    /\ history' = history \cup {to_Pose}
    /\ pc' = "fault"
    /\ UNCHANGED <<text, floor, start, goal, position, orientation, placed, events>>

ExitSolved ==
    /\ pc = "loop" /\ ~LoopCond
    /\ is_player_located_at_goal
    /\ events' = Append(events, ExitEvent(position))
    /\ pc' = "solved"
    /\ UNCHANGED <<text, floor, start, goal, position, orientation, placed, history>>

ExitUnsolvable ==
    /\ pc = "loop" /\ ~LoopCond
    /\ ~is_player_located_at_goal
    /\ events' = Append(events, NoSolutionEvent)
    /\ pc' = "unsolvable"
    /\ UNCHANGED <<text, floor, start, goal, position, orientation, placed, history>>

Next ==
    \/ Begin
    \/ GoRight
    \/ GoForward
    \/ GoLeft
    \/ GoBackward
    \/ RaiseIndexError
    \/ ExitSolved
    \/ ExitUnsolvable

Spec == Init /\ [][Next]_vars

(* ---- Maze.parse(text) and print(maze.to_string()) on any text ---- *)
NoPoint == Point2D(-1, -1)

MissingStartError ==
    [kind |-> "Error",
     message |-> "Error: Cannot find the beginning position. Abort program."]

MissingGoalError ==
    [kind |-> "Error",
     message |-> "Error: Cannot find the exit position. Abort program."]

MazeEvent(t) == [kind |-> "Maze", text |-> t]

Texts == UNION { [1..n -> Chars] : n \in 0..MaxText }

InitParse ==
    /\ text \in Texts
    /\ floor = <<>>
    /\ start = NoPoint
    /\ goal = NoPoint
    /\ position = NoPoint
    /\ orientation = "North"
    /\ placed = [position |-> NoPoint, orientation |-> "North"]
    /\ history = {}
    /\ events = <<>>
    /\ pc = "parse"

ParseExitNoStart ==
    /\ pc = "parse"
    /\ parse(text).outcome = "NoStart"
    /\ events' = Append(events, MissingStartError)
    /\ pc' = "exit"
    /\ UNCHANGED <<text, floor, start, goal, position, orientation, placed,
                   history>>

ParseExitNoGoal ==
    /\ pc = "parse"
    /\ parse(text).outcome = "NoGoal"
    /\ events' = Append(events, MissingGoalError)
    /\ pc' = "exit"
    /\ UNCHANGED <<text, floor, start, goal, position, orientation, placed,
                   history>>

ParseValueError ==
    /\ pc = "parse"
    /\ parse(text).outcome = "ValueError"
    /\ pc' = "ValueError"
    /\ UNCHANGED <<text, floor, start, goal, position, orientation, placed,
                   history, events>>

ParseReturn ==
    /\ pc = "parse"
    /\ parse(text).outcome = "Maze"
    /\ floor' = parse(text).floor
    /\ start' = parse(text).start
    /\ goal' = parse(text).goal
    /\ pc' = "parsed"
    /\ UNCHANGED <<text, position, orientation, placed, history, events>>

PrintMaze ==
    /\ pc = "parsed"
    /\ events' = Append(events, MazeEvent(to_string(floor)))
    /\ pc' = "printed"
    /\ UNCHANGED <<text, floor, start, goal, position, orientation, placed,
                   history>>

NextParse ==
    \/ ParseExitNoStart
    \/ ParseExitNoGoal
    \/ ParseValueError
    \/ ParseReturn
    \/ PrintMaze

SpecParse == InitParse /\ [][NextParse]_vars

(* ---- vocabulary of the properties ---- *)
PlacedAtStart == placed.position = start

Terminated == pc \in {"solved", "unsolvable", "fault"}

(* the number of turn-plus-step transitions taken so far *)
Transitions == Cardinality({ i \in 1..Len(events) : events[i].kind = "At" })

Passable(pos) == FloorAt(floor, pos) \in {"Normal", "Start", "Goal"}

IsWall(pos) == FloorAt(floor, pos) = "Wall"

(* C1: with the agent placed at the start, a run takes at most            *)
(* R*C*4 + 1 transitions (R rows, at most C columns).                     *)
C1_TerminationBound ==
    PlacedAtStart => Transitions <= Len(floor) * MaxCols(floor) * 4 + 1

C1_Witness ==
    /\ PlacedAtStart
    /\ pc = "unsolvable"
    /\ 2 * Transitions > Len(floor) * MaxCols(floor) * 4 + 1

(* C2: every transition steps onto a cell that is not Wall (Normal, Start *)
(* or Goal), one unit vector away from the position before.               *)
C2_NeverStepsOntoWall ==
    [][position' # position =>
          /\ \E o \in EOrientation : position' = Add(position, value(o))
          /\ Passable(position')]_vars

(* C3: navigation never faults: a run from the start of an accepted maze  *)
(* never ends in an IndexError of a grid lookup.                          *)
C3_NeverFaults == PlacedAtStart => pc # "fault"

(* C4: the verdict is Unsolvable exactly when the run ends away from the   *)
(* goal in a pose recorded at an earlier loop entry; a loop entry away     *)
(* from the goal in a pose not yet recorded (a revisited position with     *)
(* another orientation included) never ends the run as Unsolvable.         *)
C4_CycleDetectionExact ==
    /\ [](pc \in {"solved", "unsolvable"} =>
            (pc = "unsolvable" <=>
                /\ position # goal
                /\ [position |-> position, orientation |-> orientation]
                       \in history))
    /\ [][(/\ pc = "loop"
           /\ position # goal
           /\ [position |-> position, orientation |-> orientation]
                  \notin history)
          => pc' # "unsolvable"]_vars

(* an Unsolvable end in a pose held before, in a run that came back to a   *)
(* position facing another way without ending there                        *)
C4_Witness ==
    /\ pc = "unsolvable"
    /\ position # goal
    /\ [position |-> position, orientation |-> orientation] \in history
    /\ \E h1, h2 \in history :
          h1.position = h2.position /\ h1.orientation # h2.orientation

(* C5: at a loop entry on the goal cell the run ends Solved and takes no   *)
(* further transition; a run placed on the goal is Solved with zero        *)
(* transitions.                                                            *)
C5_GoalPriority ==
    /\ [][(pc = "loop" /\ position = goal) =>
            /\ pc' = "solved"
            /\ position' = position
            /\ orientation' = orientation
            /\ Transitions' = Transitions]_vars
    /\ []((placed.position = goal /\ pc # "init") =>
            /\ pc \in {"loop", "solved"}
            /\ position = goal
            /\ Transitions = 0)

C5_Witness ==
    /\ placed.position = goal
    /\ pc = "solved"
    /\ Transitions = 0

(* C6: the orientation of every transition is the first of right,         *)
(* straight, left whose destination is not Wall, and the reverse only      *)
(* when all three are Wall.                                                *)
C6_PriorityOrder ==
    [][position' # position =>
        LET R == Add(position, value(turn_to_the_right(orientation)))
            F == Add(position, value(orientation))
            L == Add(position, value(turn_to_the_left(orientation)))
        IN  /\ (orientation' = turn_to_the_right(orientation)) <=> Passable(R)
            /\ (orientation' = orientation) <=> (IsWall(R) /\ Passable(F))
            /\ (orientation' = turn_to_the_left(orientation))
                   <=> (IsWall(R) /\ IsWall(F) /\ Passable(L))
            /\ (orientation' = turn_around(orientation))
                   <=> (IsWall(R) /\ IsWall(F) /\ IsWall(L))]_vars

(* a run that has taken a right turn, a straight step, a left turn and an  *)
(* about-face                                                              *)
C6_Witness ==
    \E i, j, k, l \in 3..Len(events) :
        /\ events[i].kind = "At" /\ events[j].kind = "At"
        /\ events[k].kind = "At" /\ events[l].kind = "At"
        /\ events[i].orientation = turn_to_the_right(events[i - 1].orientation)
        /\ events[j].orientation = events[j - 1].orientation
        /\ events[k].orientation = turn_to_the_left(events[k - 1].orientation)
        /\ events[l].orientation = turn_around(events[l - 1].orientation)

(* ---- connectivity of the grid through 4-adjacent non-Wall cells ---- *)
Cells(f) ==
    { Point2D(i - 1, j - 1) : i \in 1..Len(f), j \in 1..MaxCols(f) }

OpenCells(f) ==
    { p \in Cells(f) : p.y < Len(f[p.x + 1]) /\ f[p.x + 1][p.y + 1] # "Wall" }

RECURSIVE Closure(_, _)
Closure(f, S) ==
    LET N == S \cup { q \in OpenCells(f) :
                        \E p \in S, o \in EOrientation : q = Add(p, value(o)) }
    IN  IF N = S THEN S ELSE Closure(f, N)

ConnectedToStart(f, s) == Closure(f, {s})

BorderedRectangle(f) ==
    /\ Rectangular(f)
    /\ Len(f[1]) >= 1
    /\ \A i \in 1..Len(f), j \in 1..Len(f[1]) :
          (i = 1 \/ i = Len(f) \/ j = 1 \/ j = Len(f[1])) => f[i][j] = "Wall"

(* C7: in a rectangular maze with an all-Wall border and the agent placed *)
(* at the start, a Solved verdict implies that the goal is connected to   *)
(* the start through non-Wall cells.                                      *)
C7_SolvedImpliesConnected ==
    (PlacedAtStart /\ BorderedRectangle(floor) /\ pc = "solved")
        => goal \in ConnectedToStart(floor, start)

(* C8: the documented verdicts of the three example mazes.                *)
C8_ExampleVerdicts ==
    (PlacedAtStart /\ Terminated) =>
        /\ (floor = maze1 /\ placed.orientation = "East")
              => (pc = "solved" /\ position = Point2D(2, 2))
        /\ (floor = maze2 /\ placed.orientation = "East")
              => pc = "unsolvable"
        /\ (floor = maze3 /\ placed.orientation = "North")
              => pc = "solved"

C8_Witness ==
    /\ floor = maze2
    /\ PlacedAtStart
    /\ placed.orientation = "East"
    /\ pc = "unsolvable"
    /\ Transitions > 0

(* C9 as claimed: the event of every transition carries the position      *)
(* after the step and the orientation now faced.                          *)
C9_EventCarriesNewPosition ==
    [][position' # position =>
          /\ Len(events') = Len(events) + 1
          /\ events'[Len(events')].kind = "At"
          /\ events'[Len(events')].position = position'
          /\ events'[Len(events')].orientation = orientation']_vars

(* C9 amended: the event of every transition carries the position before  *)
(* the step (the cell the agent leaves) and the orientation faced after    *)
(* the turn; the last event of a Solved run carries the goal position and  *)
(* the last event of an Unsolvable run is the no-solution signal.          *)
C9_EventCarriesOldPosition ==
    /\ [][position' # position =>
            /\ Len(events') = Len(events) + 1
            /\ events'[Len(events')].kind = "At"
            /\ events'[Len(events')].position = position
            /\ events'[Len(events')].position # position'
            /\ events'[Len(events')].orientation = orientation']_vars
    /\ [](pc = "solved" =>
            /\ events[Len(events)].kind = "Exit"
            /\ events[Len(events)].position = goal)
    /\ [](pc = "unsolvable" => events[Len(events)].kind = "NoSolution")

C9_Witness ==
    /\ pc = "solved"
    /\ Transitions >= 2
    /\ events[Len(events)].position = goal
    /\ events[Len(events) - 1].kind = "At"
    /\ events[Len(events) - 1].position # goal

(* C10: the maze is read-only and self-consistent: floor, start and goal   *)
(* never change, floor at start is Start and floor at goal is Goal, each   *)
(* the first occurrence of its kind in row-major order.                    *)
FirstInRowMajor(kind, p) ==
    /\ p.x >= 0 /\ p.x < Len(floor)
    /\ p.y >= 0 /\ p.y < Len(floor[p.x + 1])
    /\ floor[p.x + 1][p.y + 1] = kind
    /\ \A i \in 1..Len(floor) : \A j \in 1..Len(floor[i]) :
          floor[i][j] = kind =>
              (p.x < i - 1 \/ (p.x = i - 1 /\ p.y <= j - 1))

C10_MazeReadOnly ==
    /\ [][floor' = floor /\ start' = start /\ goal' = goal]_vars
    /\ [](FirstInRowMajor("Start", start) /\ FirstInRowMajor("Goal", goal))

(* several transitions into a run on a grid with two Start and two Goal    *)
(* cells                                                                   *)
C10_Witness ==
    /\ Transitions >= 2
    /\ \E i, j \in 1..Len(floor) : \E k \in 1..Len(floor[i]) :
          \E l \in 1..Len(floor[j]) :
              /\ <<i, k>> # <<j, l>>
              /\ floor[i][k] = "Start" /\ floor[j][l] = "Start"
    /\ \E i, j \in 1..Len(floor) : \E k \in 1..Len(floor[i]) :
          \E l \in 1..Len(floor[j]) :
              /\ <<i, k>> # <<j, l>>
              /\ floor[i][k] = "Goal" /\ floor[j][l] = "Goal"

C16_AtomicTransition ==
    [][position' # position =>
        /\ history' =
              history \cup {[position |-> position, orientation |-> orientation]}
        /\ orientation' \in { turn_to_the_right(orientation), orientation,
                              turn_to_the_left(orientation),
                              turn_around(orientation) }
        /\ position' = Add(position, value(orientation'))
        /\ (orientation' # orientation /\
            [position |-> position, orientation |-> orientation'] \notin history)
              => [position |-> position, orientation |-> orientation']
                     \notin history']_vars

(* after a turn: the old position with the new orientation is not in the  *)
(* history                                                                *)
C16_Witness ==
    /\ Transitions >= 2
    /\ events[Len(events)].kind = "At"
    /\ events[Len(events) - 1].kind = "At"
    /\ events[Len(events)].orientation # events[Len(events) - 1].orientation
    /\ [position |-> events[Len(events)].position,
        orientation |-> events[Len(events)].orientation] \notin history

(* C17: the turns are total on the four orientations, right four times is *)
(* the identity, left is the inverse of right, and the reverse is right   *)
(* twice, with the negated unit vector.                                   *)
C17_OrientationAlgebra ==
    \A o \in {orientation, placed.orientation} :
        /\ o \in EOrientation
        /\ turn_to_the_right(o) \in EOrientation
        /\ turn_to_the_left(o) \in EOrientation
        /\ turn_around(o) \in EOrientation
        /\ turn_to_the_right(turn_to_the_right(
               turn_to_the_right(turn_to_the_right(o)))) = o
        /\ turn_to_the_right(o) # o
        /\ turn_to_the_right(turn_to_the_right(o)) # o
        /\ turn_to_the_left(turn_to_the_right(o)) = o
        /\ turn_to_the_right(turn_to_the_left(o)) = o
        /\ turn_around(o) = turn_to_the_right(turn_to_the_right(o))
        /\ value(turn_around(o)) = Vector2D(0 - value(o).x, 0 - value(o).y)

(* a run placed facing East that has turned right and has turned about *)
C17_Witness ==
    /\ placed.orientation = "East"
    /\ \E i, k \in 3..Len(events) :
          /\ events[i].kind = "At" /\ events[k].kind = "At"
          /\ events[i].orientation
                 = turn_to_the_right(events[i - 1].orientation)
          /\ events[k].orientation = turn_around(events[k - 1].orientation)

(* C18: in a rectangular maze with an all-Wall border, with the agent     *)
(* placed at a start that has a non-Wall neighbour, the agent never       *)
(* stands on a Wall cell (or outside the grid) and no lookup faults.      *)
StartHasOpenNeighbour ==
    \E o \in EOrientation : Passable(Add(start, value(o)))

C18_NoWallInEnclosedMaze ==
    (PlacedAtStart /\ BorderedRectangle(floor) /\ StartHasOpenNeighbour) =>
        /\ Passable(position)
        /\ position.x >= 0 /\ position.y >= 0
        /\ pc # "fault"

(* an about-face has just been applied in such a maze *)
C18_Witness ==
    /\ PlacedAtStart /\ BorderedRectangle(floor) /\ StartHasOpenNeighbour
    /\ Transitions >= 2
    /\ events[Len(events)].kind = "At"
    /\ events[Len(events)].orientation
          = turn_around(events[Len(events) - 1].orientation)
    /\ Passable(position)

(* C19: at every loop entry the number of transitions equals the size of  *)
(* the history and no recorded pose is on the goal; every transition adds *)
(* exactly one pose that was not recorded before.                         *)
C19_HistoryCount ==
    /\ [](pc = "loop" =>
            /\ Transitions = Cardinality(history)
            /\ \A h \in history : h.position # goal)
    /\ [][position' # position =>
            /\ history \subseteq history'
            /\ Cardinality(history') = Cardinality(history) + 1
            /\ [position |-> position, orientation |-> orientation]
                   \in history' \ history]_vars

C19_Witness ==
    /\ pc = "loop"
    /\ Transitions >= 3
    /\ Cardinality(history) = Transitions

(* ---- vocabulary of the properties of the text format ---- *)
ParsedMaze == pc \in {"parsed", "printed"}

NoMaze == floor = <<>> /\ start = NoPoint /\ goal = NoPoint

Count(f, kind) ==
    Cardinality({ ij \in (1..Len(f)) \X (1..MaxText) :
                    ij[2] <= Len(f[ij[1]]) /\ f[ij[1]][ij[2]] = kind })

(* C12: parsing the text that to_string renders from a parsed maze gives  *)
(* the same grid (rows, row lengths, kinds), the same start and the same  *)
(* goal.                                                                  *)
C12_RoundTrip ==
    pc = "printed" =>
        LET again == parse(events[Len(events)].text)
        IN  /\ again.outcome = "Maze"
            /\ again.floor = floor
            /\ again.start = start
            /\ again.goal = goal

C14_MissingMarker ==
    pc # "parse" =>
        /\ ~Contains(text, "o")
              => (pc = "exit" /\ events = <<MissingStartError>> /\ NoMaze)
        /\ (Contains(text, "o") /\ ~Contains(text, "x"))
              => (pc = "exit" /\ events = <<MissingGoalError>> /\ NoMaze)
        /\ MissingStartError # MissingGoalError

(* both markers missing *)
C14_Witness ==
    /\ pc = "exit"
    /\ Len(text) >= 1
    /\ ~Contains(text, "o") /\ ~Contains(text, "x")
    /\ events = <<MissingStartError>>

(* C15 as claimed: a parsed Maze holds exactly one Start and exactly one   *)
(* Goal.                                                                   *)
C15_ExactlyOneMarker ==
    ParsedMaze => (Count(floor, "Start") = 1 /\ Count(floor, "Goal") = 1)

(* C15 amended: a parsed Maze holds at least one Start and at least one    *)
(* Goal, its start and goal being the first of each in row-major order;    *)
(* a text without an 'o' or without an 'x' gives no Maze; a text of glyphs  *)
(* and line ends with one or more of each marker is accepted.               *)
C15_AtLeastOneMarker ==
    /\ ParsedMaze =>
          /\ Count(floor, "Start") >= 1
          /\ Count(floor, "Goal") >= 1
          /\ FirstInRowMajor("Start", start)
          /\ FirstInRowMajor("Goal", goal)
    /\ (pc # "parse" /\ ~(Contains(text, "o") /\ Contains(text, "x")))
          => (~ParsedMaze /\ NoMaze)
    /\ (pc # "parse" /\ Contains(text, "o") /\ Contains(text, "x")
            /\ ~Contains(text, "#"))
          => ParsedMaze

(* a Maze with two Start cells and two Goal cells *)
C15_Witness ==
    /\ ParsedMaze
    /\ Count(floor, "Start") = 2
    /\ Count(floor, "Goal") = 2

====
